---- MODULE Spec2Model ----
(***************************************************************************)
(* Int32Reader (src/index.js): a Transform stream that cuts a byte stream  *)
(* of [4-byte length][payload] frames into payloads.                       *)
(*                                                                         *)
(* Buffers are sequences of bytes.  The byte source delivers the wire      *)
(* image of a sequence of frames built with the encoders of the test       *)
(* suite (makeFrameLE .. make9PFrameBE), in chunks of any size; it may    *)
(* end after any chunk.  One action is one whole _transform or _flush      *)
(* call.  Bytes stay below 128 so that a 4-byte length fits TLC's integers.*)
(*                                                                         *)
(* Spec is the reader driven as a Node pipe drives it: once _transform has *)
(* failed the source is unpiped and nothing more is written.               *)
(* SpecAnyCaller also lets a caller go on writing after a failure.         *)
(* SpecLoop takes one step per iteration of the loop of _transform.        *)
(* SpecConstruct starts before `new Int32Reader(...)`, with arguments that *)
(* the constructor may refuse.                                             *)
(***************************************************************************)
EXTENDS Integers, Sequences, FiniteSets, TLC

VARIABLES
    args,       \* the arguments the constructor is called with
    reader,     \* the Int32Reader object: its fields (NoReader before `new`)
    pushed,     \* the frames handed to this.push(), in order (readable side)
    error,      \* the error of the last callback(err) that carried one, or NoError
    phase,      \* "new" (not yet constructed) | "threw" (the constructor threw) |
                \* "open" | "errored" (a _transform failed) | "ended" (_flush ran)
    frames,     \* what the source encodes: <<[len, nineP]>>, fixed at Init
    _buf,       \* the source's buffer: the wire image of frames
    _idx,       \* how many bytes of _buf the source has delivered
    calls,      \* _transform calls so far: 0, 1, or 2 for two and more
    eager,      \* a second reader, given the same calls, whose _transform has
                \* no early return: [this, pushed, error]
    loop        \* the while loop of the _transform call in progress, when the
                \* call is followed iteration by iteration (SpecLoop)

vars == <<args, reader, pushed, error, phase, frames, _buf, _idx, calls, eager, loop>>

\* ----------------------------------------------------------------- bounds
MaxFrames == 2      \* frames the source encodes
MaxBufs == 2        \* a zero-length chunk is fed only while fewer segments are pending

\* Payload sizes the source encodes (the small end of the tests' frameSizes)
\* and the maxLength values readers are built with (scaled to those sizes, so
\* that frames at, below and above the limit occur).
frameSizes == {0, 1, 2}
maxLengths == {0, 1, 2}

\* ------------------------------------------------------------ byte helpers
RECURSIVE Concat(_)
\* Buffer.concat(bufs)
Concat(bufs) == IF bufs = <<>> THEN <<>> ELSE Head(bufs) \o Concat(Tail(bufs))

\* How Buffer.slice reads an index: negative counts from the end, then clamped.
SliceIndex(i, len) ==
    IF i < 0 THEN (IF len + i < 0 THEN 0 ELSE len + i)
    ELSE (IF i > len THEN len ELSE i)

\* buf.slice(start, end), 0-based, end exclusive
Slice(buf, start, end) ==
    LET a == SliceIndex(start, Len(buf))
        b == SliceIndex(end, Len(buf))
    IN  IF a >= b THEN <<>> ELSE SubSeq(buf, a + 1, b)

\* buf.slice(start)
SliceFrom(buf, start) == Slice(buf, start, Len(buf))

\* buf.slice(0, end)
SliceTo(buf, end) == Slice(buf, 0, end)

EMPTY_BUF == <<>>

readUInt32LE(b) == b[1] + b[2] * 256 + b[3] * 65536 + b[4] * 16777216
readUInt32BE(b) == b[4] + b[3] * 256 + b[2] * 65536 + b[1] * 16777216

writeUInt32LE(v) ==
    << v % 256, (v \div 256) % 256, (v \div 65536) % 256, (v \div 16777216) % 256 >>
writeUInt32BE(v) ==
    << (v \div 16777216) % 256, (v \div 65536) % 256, (v \div 256) % 256, v % 256 >>

\* --------------------------------------------------------- test encoders
makeFrameLE(buf) == writeUInt32LE(Len(buf)) \o buf
makeFrameBE(buf) == writeUInt32BE(Len(buf)) \o buf
make9PFrameLE(buf) == writeUInt32LE(Len(buf) + 4) \o buf
make9PFrameBE(buf) == writeUInt32BE(Len(buf) + 4) \o buf

\* ------------------------------------------------------------ error values
NoError == "none"
ErrLessThan4 == "Frame size includes the length integer itself, so it cannot be less than 4"
ErrExceeds == "exceeds max length"
ErrMidLength == "Stream ended in the middle of a frame length"
ErrMidData == "Stream ended in the middle of frame data"

MODE_DATA == "MODE_DATA"
MODE_LEN == "MODE_LEN"

\* ---------------------------------------------------------- JoinedBuffers
NewJoinedBuffers == [_bufs |-> <<>>, length |-> 0]

JoinedPush(j, buf) ==
    [_bufs |-> Append(j._bufs, buf), length |-> j.length + Len(buf)]

JoinPopFirstOnly(j) ==
    IF Len(j._bufs) = 0
    THEN [data |-> EMPTY_BUF, joined |-> j]
    ELSE [data |-> j._bufs[1], joined |-> [_bufs |-> <<>>, length |-> 0]]

\* joinPop: the buffer returned and the object afterwards
JoinPop(j) ==
    IF Len(j._bufs) = 0
    THEN [data |-> EMPTY_BUF, joined |-> j]
    ELSE [data |-> IF Len(j._bufs) = 1 THEN j._bufs[1] ELSE Concat(j._bufs),
          joined |-> [_bufs |-> <<>>, length |-> 0]]

\* ------------------------------------------------------------ Int32Reader
\* A JavaScript number passed as maxLength: a safe integer val, the fraction
\* val + 1/2, the integer val * 2^53 (not safe), NaN, or val * Infinity.
Num(n) == [kind |-> "int", val |-> n]

\* maxLength >= 0
GreaterOrEqual0(m) ==
    CASE m.kind = "int" -> m.val >= 0
      [] m.kind = "fraction" -> m.val >= 0
      [] m.kind = "NaN" -> FALSE
      [] OTHER -> m.val > 0

\* Number.isSafeInteger(maxLength)
IsSafeInteger(m) == m.kind = "int"

\* assert(maxLength >= 0 && Number.isSafeInteger(maxLength), ...)
MaxLengthOkNoSafeCheck(m) == GreaterOrEqual0(m)
MaxLengthOk(m) == GreaterOrEqual0(m) /\ IsSafeInteger(m)

ErrEndianness == "endianness must be LE or BE"
ErrMaxLength == "maxLength must be a safe integer >= 0"

\* The fields the constructor sets for a configuration it accepts.
NewInt32Reader(endianness, maxLength, lengthIncludesInt) ==
    [ endianness |-> endianness,
      _maxLength |-> maxLength,
      _lengthIncludesInt |-> lengthIncludesInt,
      _joined |-> NewJoinedBuffers,
      _mode |-> MODE_LEN,
      _currentLength |-> "null" ]

NoReader == "none"

\* new Int32Reader(endianness, maxLength, lengthIncludesInt): what it throws
\* (NoError when nothing) and the object it returns.
Constructor(endianness, maxLength, lengthIncludesInt) ==
    IF endianness \notin {"LE", "BE"}
    THEN [threw |-> ErrEndianness, this |-> NoReader]
    ELSE IF ~MaxLengthOk(maxLength)
    THEN [threw |-> ErrMaxLength, this |-> NoReader]
    ELSE [threw |-> NoError,
          this |-> NewInt32Reader(endianness, maxLength.val, lengthIncludesInt)]

\* this._readInt(b)
ReadInt(this, b) ==
    IF this.endianness = "LE" THEN readUInt32LE(b) ELSE readUInt32BE(b)

\* A loop context: the object, the local `data`, what was pushed, the error
\* passed to callback (NoError while none), and whether the call has returned.
Ctx(this, data, out, err, returned) ==
    [this |-> this, data |-> data, out |-> out, err |-> err, returned |-> returned]

\* if(this._lengthIncludesInt) { if(this._currentLength < 4) ...
LessThan4OnlyZero(this, raw) == this._lengthIncludesInt /\ raw < 1
LessThan4(this, raw) == this._lengthIncludesInt /\ raw < 4

AdjustedLengthAlways(this, raw) == raw - 4

\* this._currentLength -= 4, when the length includes the int
AdjustedLength(this, raw) == IF this._lengthIncludesInt THEN raw - 4 ELSE raw

\* if(this._currentLength > this._maxLength)
ExceedsMaxOfRaw(this, cur) == cur > this._maxLength + 4
ExceedsMaxBeforeSubtract(this, cur) ==
    (IF this._lengthIncludesInt THEN cur + 4 ELSE cur) > this._maxLength
ExceedsMax(this, cur) == cur > this._maxLength

\* One iteration of the while loop, in MODE_LEN.
LenStep(c) ==
    LET this == c.this
        data == c.data
    IN  IF Len(data) >= 4
        THEN LET raw == ReadInt(this, data)
             IN  IF LessThan4(this, raw)
                 THEN Ctx([this EXCEPT !._currentLength = raw],
                          data, c.out, ErrLessThan4, TRUE)
                 ELSE LET cur == AdjustedLength(this, raw)
                      IN  IF ExceedsMax(this, cur)
                          THEN Ctx([this EXCEPT !._currentLength = cur],
                                   data, c.out, ErrExceeds, TRUE)
                          ELSE Ctx([this EXCEPT !._currentLength = cur,
                                                !._mode = MODE_DATA],
                                   SliceFrom(data, 4), c.out, NoError, FALSE)
        ELSE Ctx([this EXCEPT !._joined = JoinedPush(this._joined, data)],
                 EMPTY_BUF, c.out, NoError, FALSE)

DataStepStaysInData(c) ==
    LET this == c.this
        data == c.data
    IN  IF Len(data) >= this._currentLength
        THEN Ctx(this,
                 SliceFrom(data, this._currentLength),
                 Append(c.out, SliceTo(data, this._currentLength)),
                 NoError, FALSE)
        ELSE Ctx([this EXCEPT !._joined = JoinedPush(this._joined, data)],
                 EMPTY_BUF, c.out, NoError, FALSE)

DataStepDropsRemainder(c) ==
    LET this == c.this
        data == c.data
    IN  IF Len(data) >= this._currentLength
        THEN Ctx([this EXCEPT !._mode = MODE_LEN],
                 SliceFrom(data, this._currentLength),
                 Append(c.out, SliceTo(data, this._currentLength)),
                 NoError, FALSE)
        ELSE Ctx(this, EMPTY_BUF, c.out, NoError, FALSE)

DataStepPushesAll(c) ==
    LET this == c.this
        data == c.data
    IN  IF Len(data) >= this._currentLength
        THEN Ctx([this EXCEPT !._mode = MODE_LEN],
                 SliceFrom(data, this._currentLength),
                 Append(c.out, data),
                 NoError, FALSE)
        ELSE Ctx([this EXCEPT !._joined = JoinedPush(this._joined, data)],
                 EMPTY_BUF, c.out, NoError, FALSE)

\* One iteration of the while loop, in MODE_DATA.
DataStep(c) ==
    LET this == c.this
        data == c.data
    IN  IF Len(data) >= this._currentLength
        THEN Ctx([this EXCEPT !._mode = MODE_LEN],
                 SliceFrom(data, this._currentLength),
                 Append(c.out, SliceTo(data, this._currentLength)),
                 NoError, FALSE)
        ELSE Ctx([this EXCEPT !._joined = JoinedPush(this._joined, data)],
                 EMPTY_BUF, c.out, NoError, FALSE)

\* The body of the while loop.
LoopBody(c) == IF c.this._mode = MODE_LEN THEN LenStep(c) ELSE DataStep(c)

RECURSIVE WhileAtLeastOnce(_)
WhileAtLeastOnce(c) ==
    LET d == LoopBody(c)
    IN  IF d.returned \/ Len(d.data) = 0 THEN d ELSE WhileAtLeastOnce(d)

RECURSIVE While(_)
\* while(data.length) { ... }, left early by `return` in the error branches
While(c) == IF c.returned \/ Len(c.data) = 0 THEN c ELSE While(LoopBody(c))

NotEnoughOffByOne(this) ==
    \/ this._mode = MODE_LEN /\ this._joined.length <= 4
    \/ this._mode = MODE_DATA /\ this._joined.length < this._currentLength

\* The early return of _transform: not enough buffered to make progress.
NotEnough(this) ==
    \/ this._mode = MODE_LEN /\ this._joined.length < 4
    \/ this._mode = MODE_DATA /\ this._joined.length < this._currentLength

\* _transform(newData, encoding, callback): the object afterwards, the frames
\* pushed by the call, and the callback's error.
Transform(this, newData) ==
    LET t1 == [this EXCEPT !._joined = JoinedPush(this._joined, newData)]
    IN  IF NotEnough(t1)
        THEN [this |-> t1, out |-> <<>>, err |-> NoError]
        ELSE LET p == JoinPop(t1._joined)
                 c == While(Ctx([t1 EXCEPT !._joined = p.joined],
                                p.data, <<>>, NoError, FALSE))
             IN  [this |-> c.this, out |-> c.out, err |-> c.err]

\* _transform with the early return taken out: joinPop and the loop, always.
TransformAlways(this, newData) ==
    LET t1 == [this EXCEPT !._joined = JoinedPush(this._joined, newData)]
        p == JoinPop(t1._joined)
        c == While(Ctx([t1 EXCEPT !._joined = p.joined],
                       p.data, <<>>, NoError, FALSE))
    IN  [this |-> c.this, out |-> c.out, err |-> c.err]

FlushOpLenOnly(this) ==
    IF this._joined.length = 0
    THEN [this |-> this, err |-> NoError]
    ELSE LET p == JoinPop(this._joined)
             t1 == [this EXCEPT !._joined = p.joined]
         IN  IF this._mode = MODE_LEN
             THEN [this |-> t1, err |-> ErrMidLength]
             ELSE [this |-> t1, err |-> NoError]

FlushOpNoModeCheck(this) ==
    IF this._joined.length = 0
    THEN [this |-> this, err |-> NoError]
    ELSE LET p == JoinPop(this._joined)
             t1 == [this EXCEPT !._joined = p.joined]
         IN  [this |-> t1, err |-> ErrMidData]

FlushOpChecksBufs(this) ==
    IF Len(this._joined._bufs) = 0
    THEN [this |-> this, err |-> NoError]
    ELSE LET p == JoinPop(this._joined)
             t1 == [this EXCEPT !._joined = p.joined]
         IN  IF this._mode = MODE_LEN
             THEN [this |-> t1, err |-> ErrMidLength]
             ELSE [this |-> t1, err |-> ErrMidData]

\* _flush(callback): the object afterwards and the callback's error.
FlushOp(this) ==
    IF this._joined.length = 0
    THEN [this |-> this, err |-> NoError]
    ELSE LET p == JoinPop(this._joined)
             t1 == [this EXCEPT !._joined = p.joined]
         IN  IF this._mode = MODE_LEN
             THEN [this |-> t1, err |-> ErrMidLength]
             ELSE [this |-> t1, err |-> ErrMidData]

\* ------------------------------------------------------------- the source
\* Payload j of the stream: bytes that differ from frame to frame and from
\* offset to offset (the tests use crypto.pseudoRandomBytes).
Payload(j, len) == [k \in 1..len |-> 16 * j + k]

\* The wire image of frame j, encoded like the tests do.
EncodeFrame(endianness, j, f) ==
    LET buf == Payload(j, f.len)
    IN  IF endianness = "LE"
        THEN IF f.nineP THEN make9PFrameLE(buf) ELSE makeFrameLE(buf)
        ELSE IF f.nineP THEN make9PFrameBE(buf) ELSE makeFrameBE(buf)

\* Buffer.concat(frames.map(makeFrame))
InputBuf(endianness, fs) ==
    Concat([j \in 1..Len(fs) |-> EncodeFrame(endianness, j, fs[j])])

\* The bytes delivered so far.
Fed == SliceTo(_buf, _idx)

FrameSpecs == [len : frameSizes, nineP : BOOLEAN]
FrameSeqs == UNION { [1..n -> FrameSpecs] : n \in 0..MaxFrames }

\* ---------------------------------------------------------------- actions
\* No _transform call is inside its loop.
Idle == [running |-> FALSE, data |-> EMPTY_BUF, returned |-> FALSE, err |-> NoError]

Init ==
    /\ \E e \in {"LE", "BE"}, m \in maxLengths, i \in BOOLEAN :
           /\ args = [endianness |-> e, maxLength |-> Num(m), lengthIncludesInt |-> i]
           /\ reader = NewInt32Reader(e, m, i)
    /\ frames \in FrameSeqs
    /\ _buf = InputBuf(reader.endianness, frames)
    /\ pushed = <<>>
    /\ error = NoError
    /\ phase = "open"
    /\ _idx = 0
    /\ calls = 0
    /\ eager = [this |-> reader, pushed |-> <<>>, error |-> NoError]
    /\ loop = Idle

\* The next chunk of n bytes goes through _transform.
Write(n) ==
    LET r == Transform(reader, SubSeq(_buf, _idx + 1, _idx + n))
        g == TransformAlways(eager.this, SubSeq(_buf, _idx + 1, _idx + n))
    IN  /\ reader' = r.this
        /\ eager' = [this |-> g.this, pushed |-> eager.pushed \o g.out,
                     error |-> IF g.err = NoError THEN eager.error ELSE g.err]
        /\ pushed' = pushed \o r.out
        /\ error' = IF r.err = NoError THEN error ELSE r.err
        /\ phase' = IF r.err = NoError THEN phase ELSE "errored"
        /\ _idx' = _idx + n
        /\ calls' = IF calls < 2 THEN calls + 1 ELSE calls
        /\ UNCHANGED <<args, frames, _buf, loop>>

\* The source delivers a chunk of any size to a reader that has not failed.
Feed ==
    /\ phase = "open"
    /\ \E n \in 0..(Len(_buf) - _idx) :
           /\ n = 0 => Len(reader._joined._bufs) < MaxBufs
           /\ Write(n)

\* The source ends: _flush runs.
Flush ==
    /\ phase = "open"
    /\ loop = Idle
    /\ LET r == FlushOp(reader)
       IN  /\ reader' = r.this
           /\ error' = r.err
    /\ phase' = "ended"
    /\ UNCHANGED <<args, pushed, frames, _buf, _idx, calls, eager, loop>>

Next == Feed \/ Flush

Spec == Init /\ [][Next]_vars

\* A caller that keeps writing after _transform has failed.
FeedAfterError ==
    /\ phase = "errored"
    /\ \E n \in 1..(Len(_buf) - _idx) : Write(n)

NextAnyCaller == Feed \/ Flush \/ FeedAfterError

SpecAnyCaller == Init /\ [][NextAnyCaller]_vars

\* _transform is called with the next n bytes: push, the early return, or
\* joinPop and entry into the loop.
Enter ==
    /\ phase = "open"
    /\ loop = Idle
    /\ \E n \in 0..(Len(_buf) - _idx) :
           /\ n = 0 => Len(reader._joined._bufs) < MaxBufs
           /\ LET t1 == [reader EXCEPT !._joined =
                            JoinedPush(reader._joined, SubSeq(_buf, _idx + 1, _idx + n))]
                  p == JoinPop(t1._joined)
              IN  IF NotEnough(t1)
                  THEN reader' = t1 /\ loop' = Idle
                  ELSE /\ reader' = [t1 EXCEPT !._joined = p.joined]
                       /\ loop' = [running |-> TRUE, data |-> p.data,
                                   returned |-> FALSE, err |-> NoError]
           /\ _idx' = _idx + n
    /\ calls' = IF calls < 2 THEN calls + 1 ELSE calls
    /\ UNCHANGED <<args, pushed, error, phase, frames, _buf, eager>>

\* One iteration of while(data.length).
Iterate ==
    /\ loop.running
    /\ ~loop.returned
    /\ Len(loop.data) # 0
    /\ LET c == LoopBody(Ctx(reader, loop.data, <<>>, NoError, FALSE))
       IN  /\ reader' = c.this
           /\ pushed' = pushed \o c.out
           /\ loop' = [running |-> TRUE, data |-> c.data,
                       returned |-> c.returned, err |-> c.err]
    /\ UNCHANGED <<args, error, phase, frames, _buf, _idx, calls, eager>>

\* The loop is over: callback(err) after a return inside it, else callback().
Leave ==
    /\ loop.running
    /\ loop.returned \/ Len(loop.data) = 0
    /\ error' = IF loop.err = NoError THEN error ELSE loop.err
    /\ phase' = IF loop.err = NoError THEN phase ELSE "errored"
    /\ loop' = Idle
    /\ UNCHANGED <<args, reader, pushed, frames, _buf, _idx, calls, eager>>

NextLoop == Enter \/ Iterate \/ Leave \/ Flush

SpecLoop == Init /\ [][NextLoop]_vars

\* Arguments a caller may pass: the valid ones and ones the constructor refuses.
endiannessArgs == {"LE", "BE", "le", ""}
maxLengthArgs ==
    { Num(n) : n \in maxLengths \cup {-1} }
        \cup { [kind |-> "fraction", val |-> 1], [kind |-> "unsafe", val |-> 1],
                [kind |-> "NaN", val |-> 0], [kind |-> "Infinity", val |-> 1] }

\* Before construction; the source encodes little-endian unless told "BE".
InitNew ==
    /\ args \in [endianness : endiannessArgs, maxLength : maxLengthArgs,
                  lengthIncludesInt : BOOLEAN]
    /\ reader = NoReader
    /\ frames \in FrameSeqs
    /\ _buf = InputBuf(IF args.endianness = "BE" THEN "BE" ELSE "LE", frames)
    /\ pushed = <<>>
    /\ error = NoError
    /\ phase = "new"
    /\ _idx = 0
    /\ calls = 0
    /\ eager = [this |-> NoReader, pushed |-> <<>>, error |-> NoError]
    /\ loop = Idle

\* new Int32Reader(args): either it throws or the reader exists and is open.
Construct ==
    /\ phase = "new"
    /\ LET r == Constructor(args.endianness, args.maxLength, args.lengthIncludesInt)
       IN  IF r.threw = NoError
           THEN /\ reader' = r.this /\ phase' = "open" /\ error' = error
                /\ eager' = [eager EXCEPT !.this = r.this]
           ELSE /\ reader' = reader /\ phase' = "threw" /\ error' = r.threw
                /\ eager' = eager
    /\ UNCHANGED <<args, pushed, frames, _buf, _idx, calls, loop>>

NextConstruct == Construct \/ Feed \/ Flush

SpecConstruct == InitNew /\ [][NextConstruct]_vars

\* ------------------------------------------------ the wire format, as a reference
\* What a byte sequence says, read by the wire format alone: [4-byte unsigned
\* length][payload], back to back.  Used to state the properties below.
RECURSIVE Unsigned(_)
Unsigned(bs) ==
    IF Len(bs) = 0 THEN 0
    ELSE 256 * Unsigned(SubSeq(bs, 1, Len(bs) - 1)) + bs[Len(bs)]

Reverse(bs) == [i \in 1..Len(bs) |-> bs[Len(bs) + 1 - i]]

Declared(field) ==
    IF reader.endianness = "LE" THEN Unsigned(Reverse(field)) ELSE Unsigned(field)

RECURSIVE WireParse(_, _)
\* frames: the payloads of the complete frames, in order; end: how the bytes
\* stop ("clean" at a frame boundary, "mid length", "mid data", or at a length
\* field that must be rejected); rest: the bytes after the last thing read.
WireParse(bytes, acc) ==
    IF Len(bytes) = 0 THEN [frames |-> acc, end |-> "clean", rest |-> <<>>]
    ELSE IF Len(bytes) < 4 THEN [frames |-> acc, end |-> "mid length", rest |-> bytes]
    ELSE LET d == Declared(SubSeq(bytes, 1, 4))
             body == SubSeq(bytes, 5, Len(bytes))
         IN  IF reader._lengthIncludesInt /\ d < 4
             THEN [frames |-> acc, end |-> "less than 4", rest |-> body]
             ELSE LET n == IF reader._lengthIncludesInt THEN d - 4 ELSE d
                  IN  IF n > reader._maxLength
                      THEN [frames |-> acc, end |-> "exceeds", rest |-> body]
                      ELSE IF Len(body) < n
                      THEN [frames |-> acc, end |-> "mid data", rest |-> body]
                      ELSE WireParse(SubSeq(body, n + 1, Len(body)),
                                     Append(acc, SubSeq(body, 1, n)))

Wire == WireParse(Fed, <<>>)

IsPrefix(s, t) == Len(s) <= Len(t) /\ SubSeq(t, 1, Len(s)) = s

\* The payloads the source encoded.
Payloads == [j \in 1..Len(frames) |-> Payload(j, frames[j].len)]

\* Every frame is encoded the way the reader is configured to read it and is
\* within maxLength.
WellFormed ==
    \A j \in 1..Len(frames) :
        /\ frames[j].nineP = reader._lengthIncludesInt
        /\ frames[j].len <= reader._maxLength

\* ------------------------------------------------------------------ C1
\* C1: round trip.  When well-formed frames have been fed completely, under
\* any chunking, and the stream has ended, the frames pushed are exactly the
\* payloads encoded, in order, and _flush reported no error.
RoundTrip ==
    (phase = "ended" /\ _idx = Len(_buf) /\ WellFormed)
        => (pushed = Payloads /\ error = NoError)

\* ------------------------------------------------------------------ C2
\* The same bytes through a fresh reader as one single chunk, then _flush
\* unless _transform failed: <<frames pushed, error>>.
OneChunkRun(bytes) ==
    LET t == Transform(NewInt32Reader(reader.endianness, reader._maxLength,
                                      reader._lengthIncludesInt), bytes)
    IN  IF t.err # NoError THEN <<t.out, t.err>>
        ELSE <<t.out, FlushOp(t.this).err>>

RECURSIVE ByteRun(_, _, _)
\* The same bytes one byte per _transform call, from object `this` with `out`
\* pushed so far; stops at the first failure, else ends with _flush.
ByteRun(this, bytes, out) ==
    IF Len(bytes) = 0 THEN <<out, FlushOp(this).err>>
    ELSE LET t == Transform(this, <<Head(bytes)>>)
         IN  IF t.err # NoError THEN <<out \o t.out, t.err>>
             ELSE ByteRun(t.this, Tail(bytes), out \o t.out)

OneByteAtATimeRun(bytes) ==
    ByteRun(NewInt32Reader(reader.endianness, reader._maxLength,
                           reader._lengthIncludesInt), bytes, <<>>)

\* C2: chunking invariance.  However the source chunked the stream (zero-length
\* chunks included), the frames pushed and the final outcome are those of the
\* same bytes delivered as one chunk and of the same bytes delivered one byte
\* at a time: after _flush for the bytes fed, and after a failed _transform for
\* the bytes fed up to the failing chunk and for the whole stream.
ChunkingInvariance ==
    /\ phase = "ended" =>
           /\ <<pushed, error>> = OneChunkRun(Fed)
           /\ <<pushed, error>> = OneByteAtATimeRun(Fed)
    /\ phase = "errored" =>
           /\ <<pushed, error>> = OneChunkRun(Fed)
           /\ <<pushed, error>> = OneChunkRun(_buf)
           /\ <<pushed, error>> = OneByteAtATimeRun(_buf)

\* A stream of two frames, delivered in two or more chunks with the first
\* frame pushed, that ended in an error.
ChunkingInvarianceWitness ==
    /\ phase \in {"ended", "errored"}
    /\ calls = 2
    /\ Len(frames) = 2
    /\ Len(pushed) >= 1
    /\ error # NoError

\* ------------------------------------------------------------------ C3
\* C3: a frame declaring a payload of 0 bytes yields an empty frame.  Once the
\* stream has ended, every complete frame of the bytes fed whose payload is
\* empty has been pushed, as an empty frame, at its place in the order.
ZeroLengthFrameEmitted ==
    phase = "ended" =>
        \A i \in 1..Len(Wire.frames) :
            Wire.frames[i] = <<>> => (i <= Len(pushed) /\ pushed[i] = <<>>)

\* ------------------------------------------------------------------ C4
\* C4: _flush succeeds only in MODE_LEN with nothing pending; from every other
\* state it reports a malformed stream.
FinishCleanOnlyAtBoundary ==
    [][(phase = "open" /\ phase' = "ended" /\ error' = NoError)
          => (reader._mode = MODE_LEN /\ reader._joined.length = 0)]_vars

\* ------------------------------------------------------------------ C5
\* C5: oversized frame.  Whenever the bytes fed reach the end of a length
\* field whose payload length exceeds maxLength, the _transform call that
\* delivered them has failed with "exceeds max length", and the frames pushed
\* are exactly the frames completed before that field.
OversizedRejected ==
    Wire.end = "exceeds" =>
        (phase = "errored" /\ error = ErrExceeds /\ pushed = Wire.frames)

\* An oversized length field after a complete frame, in a stream delivered in
\* two or more chunks.
OversizedWitness ==
    /\ Wire.end = "exceeds"
    /\ error = ErrExceeds
    /\ Len(pushed) >= 1
    /\ calls = 2

\* ------------------------------------------------------------------ C6
\* C6: length below 4 while the length includes the int.  Whenever the bytes
\* fed reach the end of a length field declaring 0..3 and the reader is built
\* with lengthIncludesInt, the _transform call that delivered them has failed
\* with "cannot be less than 4", and the frames pushed are exactly the frames
\* completed before that field.
UnderflowRejected ==
    Wire.end = "less than 4" =>
        (phase = "errored" /\ error = ErrLessThan4 /\ pushed = Wire.frames)

\* A length field below 4 after a complete frame, with bytes following it.
UnderflowWitness ==
    /\ Wire.end = "less than 4"
    /\ error = ErrLessThan4
    /\ Len(pushed) >= 1
    /\ Len(Wire.rest) >= 1

\* ------------------------------------------------------------------ C7
\* C7: truncated payload.  When the stream ends after a valid length field and
\* at least one but not all of its payload bytes, _flush fails with "Stream
\* ended in the middle of frame data" and no frame was pushed for that frame.
TruncatedPayload ==
    (phase = "ended" /\ Wire.end = "mid data" /\ Len(Wire.rest) >= 1)
        => (error = ErrMidData /\ pushed = Wire.frames)

\* A payload of two bytes cut after its first byte, in a stream delivered in
\* two or more chunks.
TruncatedPayloadWitness ==
    /\ phase = "ended"
    /\ Wire.end = "mid data"
    /\ Len(Wire.rest) = 1
    /\ error = ErrMidData
    /\ calls = 2

\* ------------------------------------------------------------------ C8
\* C8: truncated length field.  When the stream ends 1, 2 or 3 bytes into a
\* length field, at the start of the stream or after complete frames, _flush
\* fails with "Stream ended in the middle of a frame length".
TruncatedLength ==
    (phase = "ended" /\ Wire.end = "mid length") => error = ErrMidLength

\* The stream ends three bytes into the length field that follows a complete
\* frame.
TruncatedLengthWitness ==
    /\ phase = "ended"
    /\ Wire.end = "mid length"
    /\ Len(Wire.rest) = 3
    /\ Len(Wire.frames) >= 1
    /\ error = ErrMidLength

\* ------------------------------------------------------------------ C9
\* C9: in every state of a run in which no write follows a failure, the frames
\* pushed so far are a prefix of the payloads of the complete frames in the
\* bytes fed so far: in stream order, none twice, none skipped, each equal to
\* the bytes after its length field.
EmittedIsPrefix == IsPrefix(pushed, Wire.frames)

\* Two non-empty frames have been pushed and the stream is still open.
EmittedIsPrefixWitness ==
    /\ phase = "open"
    /\ Len(pushed) = 2
    /\ pushed[1] # <<>>
    /\ pushed[2] # <<>>
    /\ pushed[1] # pushed[2]

\* ------------------------------------------------------------------ C10
\* C10: an error ends decoding.  Once a _transform call has failed, no further
\* frame is pushed, whatever is written afterwards.
NoFrameAfterError == [][phase = "errored" => pushed' = pushed]_vars

\* ------------------------------------------------------------------ C11
\* C11: a zero-length chunk is a no-op.  In every state of a reader that has
\* not failed and has not ended, a _transform call with an empty chunk pushes
\* no frame, reports no error, and leaves _mode, _currentLength and the bytes
\* and the total length of the pending buffer as they were.
ZeroLengthChunkNoOp ==
    phase = "open" =>
        LET t == Transform(reader, EMPTY_BUF)
        IN  /\ t.out = <<>>
            /\ t.err = NoError
            /\ t.this._mode = reader._mode
            /\ t.this._currentLength = reader._currentLength
            /\ Concat(t.this._joined._bufs) = Concat(reader._joined._bufs)
            /\ t.this._joined.length = reader._joined.length

\* A zero-length chunk has been written while bytes were pending.
ZeroLengthChunkWitness ==
    /\ phase = "open"
    /\ Len(reader._joined._bufs) = 2
    /\ reader._joined._bufs[1] # <<>>
    /\ reader._joined._bufs[2] = <<>>

\* ------------------------------------------------------------------ C12
\* C12: empty input.  A reader that has received no byte at all (no write, or
\* zero-length chunks only) when the stream ends has pushed no frame, and
\* _flush reports no error.
EmptyInputCleanFinish ==
    (phase = "ended" /\ _idx = 0) => (pushed = <<>> /\ error = NoError)

\* The stream ended after zero-length chunks only.
EmptyInputWitness ==
    /\ phase = "ended"
    /\ _idx = 0
    /\ calls = 2
    /\ pushed = <<>>
    /\ error = NoError

\* ------------------------------------------------------------------ C13
BadDataErrors == {ErrLessThan4, ErrExceeds, ErrMidLength, ErrMidData}

BadConfiguration ==
    \/ args.endianness \notin {"LE", "BE"}
    \/ args.maxLength.kind # "int"
    \/ args.maxLength.val < 0

\* C13: configuration errors are signalled at construction.  With an
\* endianness other than "LE"/"BE", or a maxLength that is negative or not a
\* safe integer, `new` throws an error that is not one of the bad-data errors,
\* no reader exists, and so nothing is ever written to one.
ConstructionFailsFast ==
    (BadConfiguration /\ phase # "new")
        => /\ phase = "threw"
           /\ reader = NoReader
           /\ error \in {ErrEndianness, ErrMaxLength}
           /\ error \notin BadDataErrors
           /\ calls = 0
           /\ pushed = <<>>

\* The constructor threw for a maxLength that is not an integer, the
\* endianness being valid.
ConstructionFailsFastWitness ==
    /\ phase = "threw"
    /\ args.endianness = "BE"
    /\ args.maxLength.kind = "fraction"
    /\ error = ErrMaxLength

\* ------------------------------------------------------------------ C14
\* C14: pending-buffer invariant.  After every _transform call that returned
\* without error, fewer than 4 bytes are pending in MODE_LEN and fewer than
\* _currentLength bytes are pending in MODE_DATA.
PendingBelowNeed ==
    (phase = "open" /\ calls >= 1) =>
        /\ reader._mode = MODE_LEN => reader._joined.length < 4
        /\ reader._mode = MODE_DATA => reader._joined.length < reader._currentLength

\* ------------------------------------------------------------------ C15
\* The reader's configuration about to read a length field declaring L.
AtLengthField(L) ==
    Ctx(NewInt32Reader(reader.endianness, reader._maxLength, reader._lengthIncludesInt),
        IF reader.endianness = "LE" THEN writeUInt32LE(L) ELSE writeUInt32BE(L),
        <<>>, NoError, FALSE)

\* Declared lengths around both limits, and two with high bytes set.
DeclaredLengths == 0..(reader._maxLength + 9) \cup {256, 65536 + 4}

\* C15: bound-check ordering.  With lengthIncludesInt a declared length L is
\* accepted exactly when 4 <= L <= maxLength + 4, with payload length L - 4;
\* without it exactly when L <= maxLength, with payload length L.  So
\* maxLength + 4 is accepted with lengthIncludesInt and rejected without.
BoundCheckOrdering ==
    \A L \in DeclaredLengths :
        LET c == LenStep(AtLengthField(L))
            accepted == c.err = NoError /\ c.this._mode = MODE_DATA
        IN  IF reader._lengthIncludesInt
            THEN /\ accepted <=> (4 <= L /\ L <= reader._maxLength + 4)
                 /\ accepted => c.this._currentLength = L - 4
            ELSE /\ accepted <=> L <= reader._maxLength
                 /\ accepted => c.this._currentLength = L

\* A reader built with lengthIncludesInt has accepted a length field declaring
\* maxLength + 4 and waits for maxLength >= 1 payload bytes.
BoundCheckOrderingWitness ==
    /\ phase = "open"
    /\ reader._lengthIncludesInt
    /\ reader._mode = MODE_DATA
    /\ reader._maxLength >= 1
    /\ reader._currentLength = reader._maxLength
    /\ Declared(SubSeq(Fed, Len(Fed) - 3, Len(Fed))) = reader._maxLength + 4

\* ------------------------------------------------------------------ C16
\* C16: the early return is a pure optimisation.  After every sequence of
\* _transform calls the reader and the reader without the early return have
\* the same _mode, the same _currentLength, the same pending bytes and total,
\* and have pushed the same frames and reported the same error, call by call.
EarlyStopIsOptimisation ==
    phase \in {"open", "errored"} =>
        /\ eager.this._mode = reader._mode
        /\ eager.this._currentLength = reader._currentLength
        /\ Concat(eager.this._joined._bufs) = Concat(reader._joined._bufs)
        /\ eager.this._joined.length = reader._joined.length
        /\ eager.pushed = pushed
        /\ eager.error = error

\* After a frame was pushed, the reader has taken the early return at least
\* twice (its pending bytes lie in several segments) where the other reader
\* joined and pushed them back as one.
EarlyStopWitness ==
    /\ phase = "open"
    /\ Len(pushed) >= 1
    /\ Len(reader._joined._bufs) >= 2
    /\ reader._joined.length >= 2
    /\ Len(eager.this._joined._bufs) = 1

\* ------------------------------------------------------------------ C17
\* The length field that precedes a payload of n bytes on the wire.
FieldFor(n) ==
    LET v == IF reader._lengthIncludesInt THEN n + 4 ELSE n
    IN  IF reader.endianness = "LE" THEN writeUInt32LE(v) ELSE writeUInt32BE(v)

\* Every frame pushed with its length field, then the length field of the
\* frame in progress, then the pending bytes.
Reassembled ==
    Concat([i \in 1..Len(pushed) |-> FieldFor(Len(pushed[i])) \o pushed[i]])
        \o (IF reader._mode = MODE_DATA THEN FieldFor(reader._currentLength) ELSE <<>>)
        \o Concat(reader._joined._bufs)

\* C17: byte conservation.  While no _transform call has failed, the frames
\* pushed (each with its length field), the length field of the frame in
\* progress and the pending bytes, in that order, are exactly the bytes
\* written so far.
ByteConservation == phase = "open" => Reassembled = Fed

\* A frame has been pushed and the next one is in progress with part of its
\* payload pending.
ByteConservationWitness ==
    /\ phase = "open"
    /\ Len(pushed) >= 1
    /\ pushed[1] # <<>>
    /\ reader._mode = MODE_DATA
    /\ reader._joined.length >= 1

\* ------------------------------------------------------------------ C19
\* C19: in MODE_DATA, _currentLength is an integer from 0 to maxLength, and no
\* frame pushed is longer than maxLength.
CurrentLengthInRange ==
    /\ (phase \in {"open", "errored", "ended"} /\ reader._mode = MODE_DATA)
           => reader._currentLength \in 0..reader._maxLength
    /\ \A i \in 1..Len(pushed) : Len(pushed[i]) <= reader._maxLength

\* A reader built with lengthIncludesInt waits for a payload of exactly
\* maxLength bytes after having pushed a frame.
CurrentLengthWitness ==
    /\ phase = "open"
    /\ reader._lengthIncludesInt
    /\ reader._mode = MODE_DATA
    /\ reader._currentLength = reader._maxLength
    /\ Len(pushed) >= 1

\* ------------------------------------------------------------------ C18
\* What is left for the loop to do: twice the bytes of `data`, plus one while
\* a payload is awaited; nothing once the call has returned.
LoopVariant ==
    IF loop.returned THEN 0
    ELSE 2 * Len(loop.data) + (IF reader._mode = MODE_DATA THEN 1 ELSE 0)

\* C18: every _transform call terminates.  Each iteration of the loop strictly
\* lowers a measure that is never negative, so the loop ends after finitely
\* many iterations; an iteration in MODE_DATA that consumes no byte leaves the
\* reader in MODE_LEN, where the next one consumes 4 bytes, pushes the
\* remainder back or fails.
DrainLoopTerminates ==
    [][(loop.running /\ loop'.running)
          => /\ LoopVariant' < LoopVariant
             /\ LoopVariant' >= 0
             /\ (reader._mode = MODE_DATA /\ loop'.data = loop.data)
                    => reader'._mode = MODE_LEN]_vars

\* Inside the loop, with two zero-length frames in the working sequence: the
\* first has been pushed without consuming a byte and the second length field
\* is still to be read.
DrainLoopWitness ==
    /\ loop.running
    /\ pushed = << <<>> >>
    /\ reader._mode = MODE_LEN
    /\ Len(loop.data) = 4
    /\ Wire.frames = << <<>>, <<>> >>

====
